---- MODULE Spec2Model ----
(***************************************************************************)
(* A model of the interSeg3D-Studio backend:                               *)
(*   - the FastAPI handlers of app.py and the four process-wide globals   *)
(*     they share (specification Spec);                                    *)
(*   - the camera placement and mask recoloring of view_rendering.py      *)
(*     (specification SpecCamera);                                         *)
(*   - the largest-free-rectangle routines of voxelizer.py and            *)
(*     max_submatrix_getting.py (specification SpecRect);                  *)
(*   - loading a geometry file, alone and in the upload handler            *)
(*     (specification SpecLoad).                                           *)
(* Floating-point quantities are fixed-point integers in units of 1/Scale. *)
(***************************************************************************)
EXTENDS Integers, Sequences, FiniteSets, TLC

VARIABLES
    current_point_cloud,        \* app.py:48
    current_point_cloud_path,   \* app.py:49
    current_inference,          \* app.py:50
    current_results,            \* app.py:51
    response,                   \* the answer to the last request handled
    uploads,                    \* number of /api/upload requests handled so far
    requests,                   \* number of requests handled so far
    own,                        \* history: per client, its last upload that installed a context (0: none)
    last_infer,                 \* history: what the most recent successful /api/infer stored
    uploaded_ok,                \* history: some /api/upload has been answered 200
    call                        \* the last library-level call and its outcome

vars == <<current_point_cloud, current_point_cloud_path, current_inference,
          current_results, response, uploads, requests, own, last_infer, uploaded_ok,
          call>>

serverVars == <<current_point_cloud, current_point_cloud_path, current_inference,
                current_results, response, uploads, requests, own, last_infer,
                uploaded_ok>>

\* Python's None, comparable with the records the globals hold
None == [none |-> TRUE]

NoCall == [fn |-> "none"]

\* a library call is examined on its own, in a process that served no request
Untouched == call = NoCall /\ requests = 0

Last(s) == s[Len(s)]

Front(s) == SubSeq(s, 1, Len(s) - 1)

\* all sequences over S of length exactly n
RECURSIVE SeqsOfLen(_, _)
SeqsOfLen(S, n) ==
    IF n = 0 THEN {<<>>}
    ELSE {Append(s, x) : s \in SeqsOfLen(S, n - 1), x \in S}

SeqsUpTo(S, n) == UNION {SeqsOfLen(S, k) : k \in 0..n}

(***************************************************************************)
(* voxelizer.py / max_submatrix_getting.py: maximalRectangle               *)
(* Rows and columns are 0-based as in the source; matrix[i][j] of the      *)
(* source is matrix[i + 1][j + 1] here.                                    *)
(***************************************************************************)
MaxRows == 3
MaxCols == 3

\* voxelizer.py:17  matrix[i][j] == 1
IsFreeInt(c) == c = 1

\* max_submatrix_getting.py:10  matrix[i][j] == '1'
IsFreeStr(c) == c = "1"

\* the cells as max_submatrix_getting.py expects them (characters)
CellStr(c) == IF c = 1 THEN "1" ELSE "0"

\* lines 16-20: the histogram of row i built on the histogram of row i + 1
UpdateHeights(heights, row, free) ==
    [j \in 1..Len(heights) |-> IF free[row[j]] THEN heights[j] + 1 ELSE 0]

\* line 26: w = j if not stack else j - stack[-1] - 1
RectWidthOffByOne(stack, j) == IF stack = <<>> THEN j ELSE j - Last(stack)
RectWidth(stack, j) == IF stack = <<>> THEN j ELSE j - Last(stack) - 1

\* lines 27-32: keep the larger rectangle
RecordBest(best, h, w, i, stack, j) ==
    IF h * w > best.ans
    THEN [ans |-> h * w, n1 |-> i, n2 |-> i + h - 1,
          m1 |-> IF stack # <<>> THEN Last(stack) + 1 ELSE 0, m2 |-> j - 1]
    ELSE best

\* lines 24-33: the while loop of column j, then stack.append(j)
RECURSIVE PopLoop(_, _, _, _, _, _)
PopLoop(stack, j, heights, i, best, m) ==
    IF stack # <<>> /\ (j = m \/ heights[Last(stack) + 1] > heights[j + 1])
    THEN LET h == heights[Last(stack) + 1]
             rest == Front(stack)
             w == RectWidth(rest, j)
         IN  PopLoop(rest, j, heights, i, RecordBest(best, h, w, i, rest, j), m)
    ELSE [stack |-> Append(stack, j), best |-> best]

\* line 23: for j in range(m + 1)
RECURSIVE ColumnLoop(_, _, _, _, _, _)
ColumnLoop(j, stack, heights, i, best, m) ==
    IF j > m THEN best
    ELSE LET r == PopLoop(stack, j, heights, i, best, m)
         IN  ColumnLoop(j + 1, r.stack, heights, i, r.best, m)

\* line 15: for i in range(n-1, -1, -1)
RECURSIVE RowLoop(_, _, _, _, _)
RowLoop(i, heights, best, matrix, free) ==
    IF i < 0 THEN best
    ELSE LET hs == UpdateHeights(heights, matrix[i + 1], free)
             b  == ColumnLoop(0, <<>>, hs, i, best, Len(hs))
         IN  RowLoop(i - 1, hs, b, matrix, free)

\* lines 11-14 and the loops: ans and the bounds after the scan
ScanRectangle(matrix, free) ==
    LET n == Len(matrix)
        m == Len(matrix[1])
    IN  RowLoop(n - 1, [j \in 1..m |-> 0],
                [ans |-> 0, n1 |-> 0, n2 |-> 0, m1 |-> 0, m2 |-> 0], matrix, free)

\* voxelizer.py:5-34: returns n1, n2, m1, m2
maximalRectangle(matrix) ==
    LET b == ScanRectangle(matrix, [c \in {0, 1} |-> IsFreeInt(c)])
    IN  <<b.n1, b.n2, b.m1, b.m2>>

\* max_submatrix_getting.py:3-27: returns ans, (n1, n2, m1, m2)
maximalRectangleSub(matrix) ==
    LET b == ScanRectangle(matrix, [c \in {"0", "1"} |-> IsFreeStr(c)])
    IN  <<b.ans, <<b.n1, b.n2, b.m1, b.m2>>>>

Grids == UNION {SeqsOfLen(SeqsOfLen({0, 1}, c), r) : r \in 1..MaxRows, c \in 1..MaxCols}

GridStr(matrix) == [i \in 1..Len(matrix) |-> [j \in 1..Len(matrix[i]) |-> CellStr(matrix[i][j])]]

CallMaximalRectangle ==
    /\ Untouched
    /\ UNCHANGED serverVars
    /\ \E g \in Grids :
        call' = [fn |-> "voxelizer.maximalRectangle", matrix |-> g,
                 result |-> maximalRectangle(g)]

CallMaximalRectangleSub ==
    /\ Untouched
    /\ UNCHANGED serverVars
    /\ \E g \in Grids :
        call' = [fn |-> "max_submatrix_getting.maximalRectangle", matrix |-> g,
                 result |-> maximalRectangleSub(GridStr(g))]

(***************************************************************************)
(* view_rendering.py.  A float is an integer count of 1/Scale units; a     *)
(* point or color is a triple of them.  The vector of an empty mean (NaN   *)
(* in numpy) is NaNVec.                                                    *)
(***************************************************************************)
Scale == 10 ^ 3

MaxPoints == 2

NaNVec == <<>>

PointChoices == {<<0, 0, 0>>, <<2 * Scale, 0, Scale>>}

Clouds == SeqsUpTo(PointChoices, MaxPoints)

\* the color a file stores for its k-th vertex, when it stores colors
StoredColor(k) == <<0, Scale, k>>

\* a geometry file: what Open3D finds in it
GeometryFile(kind, coords, colored) ==
    [kind |-> kind, coords |-> coords,
     colors |-> IF colored THEN [k \in 1..Len(coords) |-> StoredColor(k)] ELSE <<>>]

GeometryFiles ==
    {GeometryFile(k, c, col) : k \in {"triangles", "points"}, c \in Clouds, col \in BOOLEAN}
    \cup {GeometryFile("none", <<>>, FALSE)}

\* Open3D's has_colors() / has_vertex_colors(): one color per vertex, and some vertex
HasColors(file) == Len(file.coords) > 0 /\ Len(file.colors) = Len(file.coords)

\* np.tile(color, (n, 1)) and np.ones((n, 3)) * 0.5
Tile(color, n) == [k \in 1..n |-> color]

\* one color short of one per vertex
ColorsOrDefaultShort(file, background_color) ==
    IF HasColors(file) THEN file.colors
    ELSE Tile(background_color, IF file.coords = <<>> THEN 0 ELSE Len(file.coords) - 1)

\* lines 51-53 / 61-63: the stored colors, or one background color per vertex
ColorsOrDefault(file, background_color) ==
    IF HasColors(file) THEN file.colors ELSE Tile(background_color, Len(file.coords))

\* lines 46-67
load_geometry_from_file(file, background_color) ==
    IF file.kind = "triangles"
    THEN [geometry_type |-> "mesh", coords |-> file.coords,
          colors |-> ColorsOrDefault(file, background_color)]
    ELSE [geometry_type |-> "pointcloud", coords |-> file.coords,
          colors |-> ColorsOrDefault(file, background_color)]

\* mask.any()
MaskAny(mask) == \E k \in 1..Len(mask) : mask[k]

\* coords[mask]
Select(coords, mask) ==
    LET F[k \in 0..Len(coords)] ==
            IF k = 0 THEN <<>>
            ELSE IF mask[k] THEN Append(F[k - 1], coords[k]) ELSE F[k - 1]
    IN  F[Len(coords)]

\* line 100: updated_colors[mask] = highlight_color
PaintAll(colors, mask, highlight_color) == [k \in 1..Len(colors) |-> highlight_color]
PaintMasked(colors, mask, highlight_color) ==
    [k \in 1..Len(colors) |-> IF mask[k] THEN highlight_color ELSE colors[k]]

\* lines 112-113: any other mode string
AcceptMode(mask_mode, colors) == [outcome |-> "ok", outline |-> None, updated_colors |-> colors]
RejectMode(mask_mode, colors) ==
    [outcome |-> "ValueError", message |-> "mask_mode must be 'outline' or 'full'."]

\* lines 95-114; the convex hull of line 108 is Open3D's and stays opaque
process_mask_mode(mask, coords, colors, mask_mode, highlight_color) ==
    IF mask_mode = "full"
    THEN IF Len(mask) # Len(colors)
         THEN [outcome |-> "IndexError", message |-> "boolean index did not match"]
         ELSE [outcome |-> "ok", outline |-> None,
               updated_colors |-> PaintMasked(colors, mask, highlight_color)]
    ELSE IF mask_mode = "outline"
    THEN IF ~MaskAny(mask)
         THEN [outcome |-> "ValueError", message |-> "The mask did not select any points."]
         ELSE IF Len(mask) # Len(coords)
         THEN [outcome |-> "IndexError", message |-> "boolean index did not match"]
         ELSE [outcome |-> "ok", updated_colors |-> colors,
               outline |-> [hull_of |-> Select(coords, mask), color |-> highlight_color]]
    ELSE RejectMode(mask_mode, colors)

\* floor of the square root, for the norms of numpy
RECURSIVE ISqrtBetween(_, _, _)
ISqrtBetween(n, lo, hi) ==
    IF lo >= hi THEN lo
    ELSE LET mid == (lo + hi + 1) \div 2
         IN  IF mid * mid <= n THEN ISqrtBetween(n, mid, hi) ELSE ISqrtBetween(n, lo, mid - 1)

ISqrt(n) == ISqrtBetween(n, 0, 40 * Scale)

RECURSIVE SumCoord(_, _)
SumCoord(points, c) ==
    IF points = <<>> THEN 0 ELSE points[1][c] + SumCoord(Tail(points), c)

\* np.mean(points, axis=0); NaN on an empty array
MeanVec(points) ==
    IF points = <<>> THEN NaNVec
    ELSE [c \in 1..3 |-> SumCoord(points, c) \div Len(points)]

\* np.linalg.norm of a - b
Distance(a, b) ==
    ISqrt((a[1] - b[1]) * (a[1] - b[1]) + (a[2] - b[2]) * (a[2] - b[2])
          + (a[3] - b[3]) * (a[3] - b[3]))

HorizontalDistance(a, b) ==
    ISqrt((a[1] - b[1]) * (a[1] - b[1]) + (a[2] - b[2]) * (a[2] - b[2]))

MaxOfSet(S) == CHOOSE x \in S : \A y \in S : y <= x

MinOfSet(S) == CHOOSE x \in S : \A y \in S : x <= y

\* lines 264-269
compute_object_center_and_radius(mask, coords) ==
    IF ~MaskAny(mask)
    THEN [outcome |-> "ValueError", message |-> "No masked points found in the geometry."]
    ELSE LET masked_coords == Select(coords, mask)
             center == MeanVec(masked_coords)
         IN  [outcome |-> "ok", center |-> center,
              bounding_radius |->
                  MaxOfSet({Distance(masked_coords[k], center) : k \in 1..Len(masked_coords)})]

\* lines 599-601
compute_cloud_center(coords) == MeanVec(coords)

\* cos of a whole number of degrees, times Scale, for the angles the model uses
CosFirstQuadrant ==
    (0 :> 1000) @@ (18 :> 951) @@ (30 :> 866) @@ (36 :> 809) @@ (45 :> 707)
    @@ (54 :> 588) @@ (60 :> 500) @@ (72 :> 309) @@ (90 :> 0)

CosDeg(d) ==
    IF d <= 90 THEN CosFirstQuadrant[d]
    ELSE IF d <= 180 THEN -CosFirstQuadrant[180 - d]
    ELSE IF d <= 270 THEN -CosFirstQuadrant[d - 180]
    ELSE CosFirstQuadrant[360 - d]

SinDeg(d) == CosDeg((d + 270) % 360)

\* line 427: angle = 2 * pi * i / num_positions, in degrees (the model's
\* position counts divide 360 * i)
AngleDeg(i, num_positions) == (360 * i) \div num_positions

\* lines 404-407: the horizontal field of view, in 1/Scale degrees, of a
\* vertical field of view of 90 degrees at the aspect ratio 1280 / 720
HorizontalFov == 121284

\* lines 409-410: effective_fov = horizontal_fov * (1 - overlap_ratio) and
\* int(np.ceil(360 / effective_fov)), for 0 <= overlap_ratio < 1
NumPositionsIgnoringOverlap(overlap_ratio) ==
    (360 * Scale * Scale + HorizontalFov * Scale - 1) \div (HorizontalFov * Scale)
NumPositionsOutward(overlap_ratio) ==
    LET effective_fov == HorizontalFov * (Scale - overlap_ratio)
    IN  (360 * Scale * Scale + effective_fov - 1) \div effective_fov

\* line 425
CameraRadiusSum(bounding_radius, distance_factor) == bounding_radius + distance_factor
CameraRadius(bounding_radius, distance_factor) == (bounding_radius * distance_factor) \div Scale

\* lines 424-430
CameraPositions(center, radius, num_positions, camera_height) ==
    [k \in 1..(IF num_positions > 0 THEN num_positions ELSE 0) |->
        IF center = NaNVec THEN NaNVec
        ELSE <<center[1] + (radius * CosDeg(AngleDeg(k - 1, num_positions))) \div Scale,
               center[2] + (radius * SinDeg(AngleDeg(k - 1, num_positions))) \div Scale,
               camera_height>>]

\* line 238: f"view_{idx:03d}.png" in output_dir; the digits of idx, at least three
RECURSIVE Digits(_)
Digits(n) == IF n < 10 THEN <<n>> ELSE Append(Digits(n \div 10), n % 10)

ZeroPad3(n) ==
    LET d == Digits(n)
    IN  IF Len(d) >= 3 THEN d ELSE [k \in 1..(3 - Len(d)) |-> 0] \o d

ImagePathUnindexed(output_dir, idx) ==
    [dir |-> output_dir, name |-> <<"view_", <<0, 0, 0>>, ".png">>]
ImagePath(output_dir, idx) == [dir |-> output_dir, name |-> <<"view_", ZeroPad3(idx), ".png">>]

\* lines 192 and 386: mask length against the number of points
MaskShorterAccepted(mask, coords) == Len(mask) > Len(coords)
MaskLengthMismatch(mask, coords) == Len(mask) # Len(coords)

\* line 215: if not mask_bool.any()
NeverEmpty(mask) == FALSE
RenderRejectsEmpty(mask) == ~MaskAny(mask)

\* lines 222-231: the target the camera at eye looks at; scene_center is
\* <<>> for None and <<center>> otherwise
LookAtObject(look_outward, eye, scene_center, object_center) == object_center
LookAtTarget(look_outward, eye, scene_center, object_center) ==
    IF look_outward
    THEN IF eye = NaNVec \/ scene_center[1] = NaNVec THEN NaNVec
         ELSE [c \in 1..3 |-> 2 * eye[c] - scene_center[1][c]]
    ELSE object_center

\* lines 155-156: the default colors of render_object_views
DefaultHighlight == <<Scale, 0, 0>>
DefaultBackground == <<(4 * Scale) \div 5, (4 * Scale) \div 5, (4 * Scale) \div 5>>

\* lines 185-243; effects lists, in order, what the call did besides reading
render_object_views(file, mask, camera_pos, output_dir, highlight_color, background_color, mask_mode, look_outward, scene_center) ==
    LET geo == load_geometry_from_file(file, background_color)
    IN  IF MaskLengthMismatch(mask, geo.coords)
        THEN [outcome |-> "ValueError", effects |-> <<"makedirs">>,
              message |-> "Mask length does not match number of points in the geometry."]
        ELSE
        LET pm == process_mask_mode(mask, geo.coords, geo.colors, mask_mode, highlight_color)
        IN  IF pm.outcome # "ok"
            THEN [outcome |-> pm.outcome, effects |-> <<"makedirs">>, message |-> pm.message]
            ELSE
            LET done == <<"makedirs", IF mask_mode = "full" THEN "recolor" ELSE "outline",
                          "renderer">>
            IN  IF RenderRejectsEmpty(mask)
                THEN [outcome |-> "ValueError", effects |-> done,
                      message |-> "The mask did not select any points."]
                ELSE IF look_outward /\ scene_center = <<>> /\ camera_pos # <<>>
                THEN [outcome |-> "TypeError", effects |-> done, message |-> "NoneType"]
                ELSE
                LET object_center == MeanVec(Select(geo.coords, mask))
                    views == [k \in 1..Len(camera_pos) |->
                                [eye |-> camera_pos[k],
                                 target |-> LookAtTarget(look_outward, camera_pos[k],
                                                         scene_center, object_center),
                                 path |-> ImagePath(output_dir, k - 1)]]
                    shots == [k \in 1..(2 * Len(camera_pos)) |->
                                IF k % 2 = 1 THEN "render" ELSE "write_image"]
                IN  [outcome |-> "ok", effects |-> done \o shots, views |-> views,
                     vis_colors |-> pm.updated_colors,
                     image_paths |-> [k \in 1..Len(views) |-> views[k].path]]

\* lines 396-417: where the cameras go around and how many there are
OutwardRadius == Scale \div 2
OutwardDistanceFactor == Scale \div 10

Placement(a, obj_mask, coords) ==
    IF a.look_outward
    THEN [outcome |-> "ok", center |-> compute_cloud_center(coords),
          bounding_radius |-> OutwardRadius, distance_factor |-> OutwardDistanceFactor,
          num_positions |-> NumPositionsOutward(a.overlap_ratio)]
    ELSE LET c == compute_object_center_and_radius(obj_mask, coords)
         IN  IF c.outcome # "ok" THEN c
             ELSE [outcome |-> "ok", center |-> c.center,
                   bounding_radius |-> c.bounding_radius,
                   distance_factor |-> a.distance_factor,
                   num_positions |-> a.num_positions]

\* lines 379-483; a.camera_height is <<>> for None and <<h>> otherwise
test_camera_positions(a) ==
    LET geo == load_geometry_from_file(a.file, <<Scale \div 2, Scale \div 2, Scale \div 2>>)
        obj_mask == [k \in 1..Len(a.mask) |-> a.mask[k] = a.obj_id]
    IN  IF MaskLengthMismatch(obj_mask, geo.coords)
        THEN [outcome |-> "ValueError", effects |-> <<>>,
              message |-> "Mask length does not match number of points in the geometry."]
        ELSE
        LET pm == process_mask_mode(obj_mask, geo.coords, geo.colors, a.mask_mode,
                                    a.highlight_color)
        IN  IF pm.outcome # "ok"
            THEN [outcome |-> pm.outcome, effects |-> <<>>, message |-> pm.message]
            ELSE
            LET done == <<IF a.mask_mode = "full" THEN "recolor" ELSE "outline">>
                pl == Placement(a, obj_mask, geo.coords)
            IN  IF pl.outcome # "ok"
                THEN [outcome |-> pl.outcome, effects |-> done, message |-> pl.message]
                ELSE IF a.camera_height = <<>> /\ geo.coords = <<>>
                THEN [outcome |-> "ValueError", effects |-> done,
                      message |-> "zero-size array to reduction operation minimum"]
                ELSE
                LET camera_height ==
                        IF a.camera_height = <<>>
                        THEN MinOfSet({geo.coords[k][3] : k \in 1..Len(geo.coords)})
                             + (3 * Scale) \div 2
                        ELSE a.camera_height[1]
                    radius == CameraRadius(pl.bounding_radius, pl.distance_factor)
                    camera_positions ==
                        CameraPositions(pl.center, radius, pl.num_positions, camera_height)
                    scene_center ==
                        IF pl.center = NaNVec THEN NaNVec
                        ELSE <<pl.center[1], pl.center[2], camera_height>>
                    r == render_object_views(a.file, obj_mask, camera_positions,
                                             a.output_dir, DefaultHighlight, DefaultBackground,
                                             a.mask_mode, a.look_outward, <<scene_center>>)
                    placed == [center |-> pl.center, bounding_radius |-> pl.bounding_radius,
                               radius |-> radius, camera_height |-> camera_height,
                               camera_positions |-> camera_positions,
                               scene_center |-> scene_center]
                    effects == done \o <<"makedirs", "write_ply">> \o r.effects
                IN  IF r.outcome # "ok"
                    THEN [outcome |-> r.outcome, effects |-> effects, placed |-> placed,
                          message |-> r.message]
                    ELSE [outcome |-> "ok", effects |-> effects, placed |-> placed,
                          views |-> r.views, image_paths |-> r.image_paths]

MaskModes == {"full", "outline", "wireframe", "Full"}

HighlightChoices == {<<Scale, 0, 0>>, <<0, Scale, 0>>}

BoolMasks == SeqsUpTo(BOOLEAN, MaxPoints)

CallLoadGeometry ==
    /\ Untouched
    /\ UNCHANGED serverVars
    /\ \E f \in GeometryFiles, bg \in {<<Scale \div 2, Scale \div 2, Scale \div 2>>,
                                       <<(4 * Scale) \div 5, (4 * Scale) \div 5, (4 * Scale) \div 5>>} :
        call' = [fn |-> "load_geometry_from_file", file |-> f, background_color |-> bg,
                 result |-> load_geometry_from_file(f, bg)]

CallProcessMaskMode ==
    /\ Untouched
    /\ UNCHANGED serverVars
    /\ \E f \in GeometryFiles, m \in BoolMasks, mode \in MaskModes, hl \in HighlightChoices :
        LET g == load_geometry_from_file(f, <<Scale \div 2, Scale \div 2, Scale \div 2>>)
        IN  call' = [fn |-> "process_mask_mode", mask |-> m, coords |-> g.coords,
                     colors |-> g.colors, mask_mode |-> mode, highlight_color |-> hl,
                     result |-> process_mask_mode(m, g.coords, g.colors, mode, hl)]

\* the files the rendering calls are tried on
RenderFiles ==
    {GeometryFile("triangles", c, TRUE) : c \in Clouds}
    \cup {GeometryFile("points", c, FALSE) : c \in Clouds}
    \cup {GeometryFile("none", <<>>, FALSE)}

IntMasks == SeqsUpTo({0, 1, 2}, MaxPoints)

NumPositionChoices == {0, 8}

OverlapChoices == {0, Scale \div 5}

DistanceFactorChoices == {Scale, 2 * Scale}

CameraHeightChoices == {<<>>, <<(3 * Scale) \div 2>>}

\* overlap ratios, in 1/Scale, that give 3, 4, 5, 6, 8, 10, 12 and 20 positions
OverlapSweep == {0, 200, 300, 450, 600, 700, 750, 850}

\* outward calls on one cloud with one point selected, one per overlap ratio
OutwardSweepArgs ==
    [file : {GeometryFile("points", <<<<0, 0, 0>>, <<2 * Scale, 0, Scale>>>>, FALSE)},
     mask : {<<1, 0>>}, obj_id : {1}, mask_mode : {"full"},
     highlight_color : {DefaultHighlight}, look_outward : {TRUE},
     overlap_ratio : OverlapSweep, num_positions : {8},
     distance_factor : {2 * Scale}, camera_height : {<<(3 * Scale) \div 2>>},
     output_dir : {"./camera_test"}]

CameraArgs ==
    [file : RenderFiles, mask : IntMasks, obj_id : {1}, mask_mode : MaskModes,
     highlight_color : {DefaultHighlight}, look_outward : BOOLEAN,
     overlap_ratio : OverlapChoices, num_positions : NumPositionChoices,
     distance_factor : DistanceFactorChoices, camera_height : CameraHeightChoices,
     output_dir : {"./camera_test"}]
    \cup OutwardSweepArgs

CallTestCameraPositions ==
    /\ Untouched
    /\ UNCHANGED serverVars
    /\ \E a \in CameraArgs :
        call' = [fn |-> "test_camera_positions", args |-> a,
                 result |-> test_camera_positions(a)]

\* lines 404-410 on their own: the position count of every overlap ratio
\* 0, 1/Scale, ..., (Scale - 1)/Scale
CallNumPositions ==
    /\ Untouched
    /\ UNCHANGED serverVars
    /\ \E overlap_ratio \in 0..(Scale - 1) :
        call' = [fn |-> "num_positions", overlap_ratio |-> overlap_ratio,
                 result |-> NumPositionsOutward(overlap_ratio)]

CameraPosChoices ==
    {<<>>, <<<<Scale, 0, Scale>>>>, <<<<Scale, 0, Scale>>, <<0, 3 * Scale, Scale>>>>}

CallRenderObjectViews ==
    /\ Untouched
    /\ UNCHANGED serverVars
    /\ \E f \in RenderFiles, m \in BoolMasks, pos \in CameraPosChoices, mode \in MaskModes,
          out \in BOOLEAN, sc \in {<<>>, <<<<0, 0, Scale>>>>} :
        call' = [fn |-> "render_object_views",
                 args |-> [file |-> f, mask |-> m, camera_pos |-> pos, mask_mode |-> mode,
                           look_outward |-> out, scene_center |-> sc,
                           output_dir |-> "./object_views"],
                 result |-> render_object_views(f, m, pos, "./object_views", DefaultHighlight,
                                                DefaultBackground, mode, out, sc)]

(***************************************************************************)
(* voxelizer.py: find_position.  Coordinates and the height are integers;  *)
(* the returned position is counted in units of 1/(2*SIZE), in which the   *)
(* divisions by SIZE and by 2 of the source are exact.                     *)
(***************************************************************************)
\* voxelizer.py:3 has SIZE = 1024; the grid examined here has SIZE x SIZE cells
SIZE == 2

MaxVoxelPoints == 5

Unit == 2 * SIZE

\* lines 37-38: coords.min(axis=0)[a], coords.max(axis=0)[a]
AxisMin(coords, a) == MinOfSet({coords[k][a] : k \in 1..Len(coords)})

AxisMax(coords, a) == MaxOfSet({coords[k][a] : k \in 1..Len(coords)})

\* lines 42-44 and 50: not (coord[2] < z_1 or coord[2] > z_2), with
\* z_1, z_2 = height -+ grid_z / 2 and grid_z = (max[2] - min[2]) / SIZE
InBand(z, height, zrange) ==
    /\ Unit * (height - z) <= zrange
    /\ Unit * (z - height) <= zrange

\* lines 39-40 and 53-54: int((coord - min) / grid) with grid = (max - min) / SIZE
CellIndex(c, lo, hi) == ((c - lo) * SIZE) \div (hi - lo)

\* line 47: matrix = [[1 for _ in range(SIZE)] for _ in range(SIZE)], then line 56
\* matrix[x][y] = 0 for every cell written
Rasterize(cells) ==
    [i \in 1..SIZE |->
        [j \in 1..SIZE |->
            IF \E k \in 1..Len(cells) : cells[k] = <<i - 1, j - 1>> THEN 0 ELSE 1]]

\* lines 36-71.  cells lists the indices computed for the in-band points, up to
\* and including the one at which the loop stopped
find_position(coords, height) ==
    IF coords = <<>>
    THEN [outcome |-> "ValueError", cells |-> <<>>,
          message |-> "zero-size array to reduction operation minimum"]
    ELSE
    LET lo == [a \in 1..3 |-> AxisMin(coords, a)]
        hi == [a \in 1..3 |-> AxisMax(coords, a)]
        Hit(p) == InBand(p[3], height, hi[3] - lo[3])
        band == SelectSeq(coords, Hit)
    IN  IF band # <<>> /\ (hi[1] = lo[1] \/ hi[2] = lo[2])
        THEN \* 0.0 / 0.0 is nan, and int(nan) raises
             [outcome |-> "ValueError", cells |-> <<>>,
              message |-> "cannot convert float NaN to integer"]
        ELSE
        LET all == [k \in 1..Len(band) |->
                        <<CellIndex(band[k][1], lo[1], hi[1]),
                          CellIndex(band[k][2], lo[2], hi[2])>>]
            outside == {k \in 1..Len(all) : all[k][1] >= SIZE \/ all[k][2] >= SIZE}
        IN  IF outside # {}
            THEN [outcome |-> "IndexError", cells |-> SubSeq(all, 1, MinOfSet(outside)),
                  message |-> "list index out of range"]
            ELSE
            LET matrix == Rasterize(all)
                r == maximalRectangle(matrix)
            IN  [outcome |-> "ok", cells |-> all, matrix |-> matrix, rectangle |-> r,
                 position |-> <<Unit * lo[1] + (r[1] + r[2] + 1) * (hi[1] - lo[1]),
                                Unit * lo[2] + (r[3] + r[4] + 1) * (hi[2] - lo[2]),
                                Unit * height>>]

\* the clouds find_position is examined on: up to MaxVoxelPoints points, in a
\* fixed order, of a lattice at z = 0 and two corner points high above it
VoxelPoints ==
    {<<x, y, 0>> : x \in {0, 2, 4}, y \in {0, 2, 4}} \cup {<<0, 0, 8>>, <<4, 4, 8>>}

PointKey(p) == 100 * p[1] + 10 * p[2] + p[3]

RECURSIVE SortedPoints(_)
SortedPoints(S) ==
    IF S = {} THEN <<>>
    ELSE LET p == CHOOSE q \in S : \A r \in S : PointKey(q) <= PointKey(r)
         IN  <<p>> \o SortedPoints(S \ {p})

VoxelHeights == {0, 4}

CallFindPosition ==
    /\ Untouched
    /\ UNCHANGED serverVars
    /\ \E S \in SUBSET VoxelPoints, height \in VoxelHeights :
        /\ Cardinality(S) <= MaxVoxelPoints
        /\ call' = [fn |-> "find_position", coords |-> SortedPoints(S), height |-> height,
                    result |-> find_position(SortedPoints(S), height)]

(***************************************************************************)
(* Blender_mcp/src/test.py: modify_ply_colors.  A file is a sequence of    *)
(* byte runs: the marker, the text "property uchar ", the three color      *)
(* names, "diffuse_", one other ASCII byte and one byte that is not valid  *)
(* UTF-8.  A decoded header is a sequence of characters [ch |-> run].      *)
(***************************************************************************)
MaxPlyLen == 4

EndHeader == "end_header"

PropertyUchar == "property uchar "

Diffuse == "diffuse_"

InvalidByte == "0xFF"

ColorNames == {"red", "green", "blue"}

PlyBytes == {EndHeader, PropertyUchar, Diffuse, "x", InvalidByte} \cup ColorNames

\* line 7: content.find(b'end_header'), counted from 1; 0 stands for -1
FindEndHeader(content) ==
    IF \E k \in 1..Len(content) : content[k] = EndHeader
    THEN MinOfSet({k \in 1..Len(content) : content[k] = EndHeader})
    ELSE 0

\* line 17: header.decode('utf-8', errors='ignore') leaves out what is not UTF-8
IsUtf8(b) == b # InvalidByte

DecodeIgnore(bytes) ==
    LET kept == SelectSeq(bytes, IsUtf8)
    IN  [k \in 1..Len(kept) |-> [ch |-> kept[k]]]

\* line 25: header_str.encode('utf-8')
EncodeUtf8(str) == [k \in 1..Len(str) |-> str[k].ch]

\* lines 20-22: str.replace('property uchar <name>', 'property uchar diffuse_<name>')
RECURSIVE ReplaceName(_, _)
ReplaceName(str, name) ==
    IF str = <<>> THEN <<>>
    ELSE IF Len(str) >= 2 /\ str[1].ch = PropertyUchar /\ str[2].ch = name
    THEN <<str[1], [ch |-> Diffuse], str[2]>> \o ReplaceName(SubSeq(str, 3, Len(str)), name)
    ELSE <<str[1]>> \o ReplaceName(Tail(str), name)

\* lines 1-35: what is written to output_ply_path, if anything
modify_ply_colors(content) ==
    LET header_end == FindEndHeader(content)
    IN  IF header_end = 0
        THEN [written |-> FALSE]
        ELSE
        LET header == SubSeq(content, 1, header_end)
            header_str == ReplaceName(ReplaceName(ReplaceName(DecodeIgnore(header),
                              "red"), "green"), "blue")
            new_header == EncodeUtf8(header_str)
            data == SubSeq(content, header_end + 1, Len(content))
        IN  [written |-> TRUE, output |-> new_header \o data]

\* the function applied to a file and then, when it wrote one, to its output
CallModifyPlyColors ==
    /\ Untouched
    /\ UNCHANGED serverVars
    /\ \E content \in SeqsUpTo(PlyBytes, MaxPlyLen) :
        LET first == modify_ply_colors(content)
        IN  call' = [fn |-> "modify_ply_colors", content |-> content, result |-> first,
                     again |-> IF first.written THEN modify_ply_colors(first.output)
                               ELSE [written |-> FALSE]]

(***************************************************************************)
(* app.py: the request handlers.  The async handlers contain no await, so  *)
(* each runs to completion on the event loop: one action per request.      *)
(***************************************************************************)
MaxRequests == 4
MaxUploads == 2

Clients == {"A", "B"}

UploadPoint == <<Scale, 0, Scale>>

\* a mesh without stored colors, a colored cloud, an empty cloud, no geometry
UploadFiles ==
    {GeometryFile("triangles", <<UploadPoint>>, FALSE),
     GeometryFile("points", <<UploadPoint>>, TRUE),
     GeometryFile("points", <<>>, FALSE),
     GeometryFile("none", <<>>, FALSE)}

\* a JSONResponse / FileResponse / returned dict the handler itself built
Answer(endpoint, client, status, message) ==
    [endpoint |-> endpoint, client |-> client, status |-> status, handled |-> TRUE,
     message |-> message]

\* an exception that left the handler: the framework answers, not the handler
Escaped(endpoint, client, error) ==
    [endpoint |-> endpoint, client |-> client, status |-> 500, handled |-> FALSE,
     message |-> error]

\* a behaviour either serves requests or examines one library call
Count ==
    /\ call = NoCall
    /\ requests < MaxRequests
    /\ requests' = requests + 1

\* lines 94-111: pcd_type is neither CONTAINS_TRIANGLES nor CONTAINS_POINTS
ContentsNeverUnknown(file) == FALSE
ContentsUnknown(file) == file.kind = "none"

\* lines 73-145
upload_point_cloud(client, file, fail) ==
    /\ Count
    /\ uploads < MaxUploads
    /\ uploads' = uploads + 1
    /\ UNCHANGED <<current_results, last_infer, call>>
    /\ LET uid == uploads + 1
           file_path == [upload |-> uid, client |-> client, name |-> "scan.ply", file |-> file]
           fresh == [upload |-> uid, client |-> client, loaded |-> FALSE, click_handler |-> None]
           colors == ColorsOrDefault(file, <<Scale \div 2, Scale \div 2, Scale \div 2>>)
       IN  IF fail = "mkdtemp"
           THEN /\ response' = Escaped("upload", client, "OSError")
                /\ UNCHANGED <<current_point_cloud, current_point_cloud_path,
                               current_inference, own>>
           ELSE IF fail = "save"
           THEN /\ response' = Answer("upload", client, 500, "Error processing file")
                /\ UNCHANGED <<current_point_cloud, current_point_cloud_path,
                               current_inference, own>>
           ELSE
           /\ current_point_cloud_path' = file_path
           /\ IF ContentsUnknown(file)
              THEN /\ response' = Answer("upload", client, 400, "Unsupported file format")
                   /\ UNCHANGED <<current_point_cloud, current_inference, own>>
              ELSE IF fail = "PointCloudInference"
              THEN /\ response' = Answer("upload", client, 500, "Error processing file")
                   /\ UNCHANGED <<current_point_cloud, current_inference, own>>
              ELSE IF fail = "load_point_cloud"
              THEN /\ current_inference' = fresh
                   /\ response' = Answer("upload", client, 500, "Error processing file")
                   /\ UNCHANGED <<current_point_cloud, own>>
              ELSE
              /\ current_inference' = [fresh EXCEPT !.loaded = TRUE]
              /\ own' = [own EXCEPT ![client] = uid]
              /\ current_point_cloud' =
                     [upload |-> uid, is_point_cloud |-> file.kind = "points",
                      coords |-> file.coords, colors |-> colors,
                      point_count |-> Len(file.coords)]
              /\ IF file.coords = <<>>
                 THEN response' = Answer("upload", client, 500, "Error processing file")
                 ELSE response' =
                          Answer("upload", client, 200, "File uploaded successfully")
                          @@ [upload |-> uid, pointCount |-> Len(file.coords)]
    /\ uploaded_ok' = (uploaded_ok \/ response'.status = 200)

UploadFails == {"none", "mkdtemp", "save", "PointCloudInference", "load_point_cloud"}

\* every file is uploaded without a fault; the faults are injected on one file
UploadPointCloud ==
    \E client \in Clients, file \in UploadFiles, fail \in UploadFails :
        /\ fail = "none" \/ file = GeometryFile("points", <<UploadPoint>>, TRUE)
        /\ upload_point_cloud(client, file, fail)

\* segmentor.py:30-42: one annotated image per rendered view
pre_segment(in_paths) ==
    [k \in 1..Len(in_paths) |->
        [dir |-> "camera_test", name |-> in_paths[k].name, suffix |-> "_segmented.png"]]

\* lines 147-188: no guard and no try
pre_segmentation(client) ==
    /\ Count
    /\ UNCHANGED <<current_point_cloud, current_point_cloud_path, current_inference,
                   current_results, uploads, own, last_infer, uploaded_ok, call>>
    /\ IF current_point_cloud = None
       THEN response' = Escaped("pre_segmentation", client, "TypeError")
       ELSE IF current_point_cloud.coords = <<>>
       THEN response' = Escaped("pre_segmentation", client, "ValueError")
       ELSE
       LET coords == current_point_cloud.coords
           zs == {coords[k][3] : k \in 1..Len(coords)}
           height == (MaxOfSet(zs) * 2 + MinOfSet(zs)) \div 3
           r == test_camera_positions(
                    [file |-> current_point_cloud_path.file,
                     mask |-> [k \in 1..Len(coords) |-> 0], obj_id |-> 1,
                     mask_mode |-> "full", highlight_color |-> <<Scale, 0, 0>>,
                     look_outward |-> TRUE, overlap_ratio |-> Scale \div 5,
                     num_positions |-> 8, distance_factor |-> 2 * Scale,
                     camera_height |-> <<height>>, output_dir |-> "./camera_test"])
       IN  IF r.outcome # "ok"
           THEN response' = Escaped("pre_segmentation", client, r.outcome)
           ELSE response' = Answer("pre_segmentation", client, 200,
                                   "Pre-segment completed successfully")
                            @@ [outPaths |-> pre_segment(r.image_paths)]

PreSegmentation == \E client \in Clients : pre_segmentation(client)

\* line 195-197: the context a request reads is the process-wide one
InferenceContextOfClient(client) ==
    IF own[client] = 0 \/ current_inference = None THEN None
    ELSE [current_inference EXCEPT !.upload = own[client], !.client = client, !.loaded = TRUE]
InferenceContext(client) == current_inference

\* request.clickData: per object index (in the order of the dict) the click
\* positions of "clickPositions" and the time indices of "clickTimeIdx"
ClickObject(obj_idx, positions, time_idx) ==
    [obj_idx |-> obj_idx, positions |-> positions, time_idx |-> time_idx]

ClickRequests ==
    {<<>>,
     <<ClickObject(1, <<UploadPoint, <<0, 0, 0>>>>, <<0, 1>>)>>,
     <<ClickObject(0, <<UploadPoint>>, <<1>>), ClickObject(1, <<UploadPoint>>, <<0>>)>>,
     <<ClickObject(1, <<UploadPoint, <<0, 0, 0>>>>, <<0>>)>>}

\* lines 208-216: the (object, i, pos) the two nested loops visit, in order
ClickSlots(clickData) ==
    LET F[k \in 0..Len(clickData)] ==
            IF k = 0 THEN <<>>
            ELSE F[k - 1] \o [i \in 1..Len(clickData[k].positions) |->
                                [obj_idx |-> clickData[k].obj_idx, index |-> i - 1,
                                 position |-> clickData[k].positions[i],
                                 time_indices |-> clickData[k].time_idx]]
    IN  F[Len(clickData)]

\* what was done to the click of object obj_idx at index i
Step(name, slot) == [step |-> name, click |-> <<slot.obj_idx, slot.index>>]

\* lines 217-231: Click(...), clicks.append, find_nearest_point, _update_click_dicts
ClickStepsUpdateFirst(slot) ==
    <<Step("Click", slot), Step("_update_click_dicts", slot), Step("append", slot),
      Step("find_nearest_point", slot)>>
ClickSteps(slot) ==
    <<Step("Click", slot), Step("append", slot), Step("find_nearest_point", slot),
      Step("_update_click_dicts", slot)>>

\* lines 217-224
Click(slot) ==
    [position |-> slot.position, obj_idx |-> slot.obj_idx,
     obj_name |-> IF slot.obj_idx = 0 THEN "background" ELSE "object",
     time_idx |-> slot.time_indices[slot.index + 1], is_positive |-> TRUE]

\* lines 205-231: the click loop on a fresh ClickHandler; loaded tells whether
\* the context has the coordinates find_nearest_point searches
ClickLoop(slots, loaded) ==
    LET G[k \in 0..Len(slots)] ==
            IF k = 0 THEN [outcome |-> "ok", clicks |-> <<>>, steps |-> <<>>]
            ELSE IF G[k - 1].outcome # "ok" THEN G[k - 1]
            ELSE IF slots[k].index >= Len(slots[k].time_indices)
            THEN [G[k - 1] EXCEPT !.outcome = "IndexError"]
            ELSE IF ~loaded
            THEN [outcome |-> "AttributeError",
                  clicks |-> Append(G[k - 1].clicks, Click(slots[k])),
                  steps |-> G[k - 1].steps \o SubSeq(ClickSteps(slots[k]), 1, 2)]
            ELSE [outcome |-> "ok",
                  clicks |-> Append(G[k - 1].clicks, Click(slots[k])),
                  steps |-> G[k - 1].steps \o ClickSteps(slots[k])]
    IN  G[Len(slots)]

\* line 237: the model runs on the clicks of current_inference.click_handler
ModelRun(click_handler) == [step |-> "run_inference", clicks |-> click_handler.clicks]

\* lines 237-250: current_results is assigned after the model has run and
\* save_results has returned
StoredBeforeSave(fail, loaded) == loaded /\ fail \in {"none", "save_results"}
ReachesStore(fail, loaded) == loaded /\ fail = "none"

\* lines 190-270
run_inference(client, clickData, fail) ==
    /\ Count
    /\ UNCHANGED <<current_point_cloud, current_point_cloud_path, uploads, own,
                   uploaded_ok, call>>
    /\ LET ctx == InferenceContext(client)
           loop == ClickLoop(ClickSlots(clickData), ctx.loaded)
           click_handler == [request |-> requests + 1, client |-> client,
                             clicks |-> loop.clicks]
           failed == Answer("infer", client, 500, "Error running inference")
                     @@ [clickData |-> clickData]
       IN  IF ctx = None
           THEN /\ response' = Answer("infer", client, 400, "No point cloud loaded")
                /\ UNCHANGED <<current_inference, current_results, last_infer>>
           ELSE IF fail = "clickData"
           THEN /\ response' = failed @@ [steps |-> <<>>]
                /\ UNCHANGED <<current_inference, current_results, last_infer>>
           ELSE IF loop.outcome # "ok"
           THEN /\ response' = failed @@ [steps |-> loop.steps]
                /\ UNCHANGED <<current_inference, current_results, last_infer>>
           ELSE
           /\ current_inference' = [current_inference EXCEPT !.click_handler = click_handler]
           /\ current_results' =
                  IF ReachesStore(fail, ctx.loaded)
                  THEN [mask_of |-> ctx.upload,
                        result_path |-> [dir |-> "./outputs",
                                         prefix |-> current_point_cloud_path.name,
                                         session |-> current_point_cloud_path.upload]]
                  ELSE current_results
           /\ IF fail \in {"run_inference", "save_results"} \/ ~ctx.loaded
              THEN /\ response' = failed @@ [steps |-> Append(loop.steps, ModelRun(click_handler))]
                   /\ UNCHANGED last_infer
              ELSE /\ last_infer' = [result_path |-> current_results'.result_path,
                                     request |-> requests + 1]
                   /\ response' = Answer("infer", client, 200,
                                         "Inference completed successfully")
                                  @@ [served_from |-> ctx.upload, uploaded_by |-> ctx.client,
                                      clickData |-> clickData,
                                      steps |-> Append(loop.steps, ModelRun(click_handler))]

InferFails == {"none", "clickData", "run_inference", "save_results"}

RunInference ==
    \E client \in Clients, clickData \in ClickRequests, fail \in InferFails :
        /\ fail = "none" \/ Len(clickData) = 2
        /\ run_inference(client, clickData, fail)

\* np.unique: the distinct values in ascending order
Ascending(S) ==
    LET F[T \in SUBSET S] ==
            IF T = {} THEN <<>> ELSE Append(F[T \ {MaxOfSet(T)}], MaxOfSet(T))
    IN  F[S]

\* lines 311-312: np.unique(mask_np), then the values > 0
UniqueObjIdsWithBackground(mask) == Ascending({mask[k] : k \in 1..Len(mask)})
UniqueObjIds(mask) == Ascending({x \in {mask[k] : k \in 1..Len(mask)} : x > 0})

\* lines 273-276 and 321-326: one call of mask_obj_recognition per id, each on
\* mask_np.copy(); copy tells the array objects apart
Invocations(ids, mask, point_cloud_path) ==
    [k \in 1..Len(ids) |->
        [obj_id |-> ids[k], point_cloud_path |-> point_cloud_path,
         mask |-> mask, copy |-> k]]

\* lines 279-338
run_mask_obj_recognition(client, mask, fail) ==
    /\ Count
    /\ UNCHANGED <<current_point_cloud, current_point_cloud_path, current_inference,
                   current_results, uploads, own, last_infer, uploaded_ok, call>>
    /\ LET ids == UniqueObjIds(mask)
           calls == Invocations(ids, mask, current_point_cloud_path.upload)
           asked == [mask |-> mask]
       IN  IF current_point_cloud_path = None
           THEN response' = Answer("mask_obj_recognition", client, 400, "No point cloud loaded")
                            @@ asked @@ [invoked |-> <<>>]
           ELSE IF ids = <<>>
           THEN response' = Answer("mask_obj_recognition", client, 400,
                                   "No objects found in the mask")
                            @@ asked @@ [invoked |-> <<>>]
           ELSE IF fail = "mask_obj_recognition"
           THEN response' = Answer("mask_obj_recognition", client, 500,
                                   "Error running mask object recognition")
                            @@ asked @@ [invoked |-> SubSeq(calls, 1, 1)]
           ELSE response' = Answer("mask_obj_recognition", client, 200,
                                   "Mask object recognition completed successfully")
                            @@ asked
                            @@ [invoked |-> calls,
                                result |-> [k \in 1..Len(calls) |->
                                               [described |-> calls[k].obj_id]]]

RecognitionMasks == {<<>>, <<0, -1>>, <<2, 0, -1, 1, 2>>}

RunMaskObjRecognition ==
    \E client \in Clients, mask \in RecognitionMasks, fail \in {"none", "mask_obj_recognition"} :
        run_mask_obj_recognition(client, mask, fail)

\* line 346: not current_results or not current_results.get("result_path")
ResultsMissingAfterUpload(results) ==
    results = None \/ results.mask_of # current_point_cloud_path.upload
ResultsMissing(results) == results = None

\* lines 341-363
download_results(client) ==
    /\ Count
    /\ UNCHANGED <<current_point_cloud, current_point_cloud_path, current_inference,
                   current_results, uploads, own, last_infer, uploaded_ok, call>>
    /\ IF ResultsMissing(current_results)
       THEN response' = Answer("download-results", client, 400, "No results available")
       ELSE response' = Answer("download-results", client, 200, "FileResponse")
                        @@ [path |-> current_results.result_path,
                            served_from |-> current_results.mask_of]

DownloadResults == \E client \in Clients : download_results(client)

\* a handler that would drop the stored result once it has answered
render_resetting(client, fail) ==
    /\ Count
    /\ UNCHANGED <<current_point_cloud, current_point_cloud_path, current_inference,
                   uploads, own, last_infer, uploaded_ok, call>>
    /\ current_results' = None
    /\ response' = IF fail = "subprocess.run"
                   THEN Escaped("render_and_segment", client, "FileNotFoundError")
                   ELSE Answer("render_and_segment", client, 200, "image")

\* lines 366-388: no try around subprocess.run
render(client, fail) ==
    /\ Count
    /\ UNCHANGED <<current_point_cloud, current_point_cloud_path, current_inference,
                   current_results, uploads, own, last_infer, uploaded_ok, call>>
    /\ IF fail = "subprocess.run"
       THEN response' = Escaped("render_and_segment", client, "FileNotFoundError")
       ELSE response' = Answer("render_and_segment", client, 200, "image")
                        @@ [segmentation |-> [bbox |-> <<100, 100, 300, 300>>,
                                              label |-> "object"]]

Render == \E client \in Clients, fail \in {"none", "subprocess.run"} : render(client, fail)

InitServer ==
    /\ current_point_cloud = None
    /\ current_point_cloud_path = None
    /\ current_inference = None
    /\ current_results = None
    /\ response = [endpoint |-> "none"]
    /\ uploads = 0
    /\ requests = 0
    /\ own = [c \in Clients |-> 0]
    /\ last_infer = None
    /\ uploaded_ok = FALSE

Init ==
    /\ InitServer
    /\ call = NoCall

NextRect ==
    \/ CallMaximalRectangle
    \/ CallMaximalRectangleSub
    \/ CallFindPosition

Next ==
    \/ UploadPointCloud
    \/ PreSegmentation
    \/ RunInference
    \/ RunMaskObjRecognition
    \/ DownloadResults
    \/ Render

Spec == Init /\ [][Next]_vars

NextLoad ==
    \/ CallLoadGeometry
    \/ UploadPointCloud

SpecLoad == Init /\ [][NextLoad]_vars

SpecRect == Init /\ [][NextRect]_vars

NextCamera ==
    \/ CallLoadGeometry
    \/ CallProcessMaskMode
    \/ CallRenderObjectViews
    \/ CallTestCameraPositions
    \/ CallNumPositions

SpecCamera == Init /\ [][NextCamera]_vars

NextPly ==
    \/ CallModifyPlyColors

SpecPly == Init /\ [][NextPly]_vars

(***************************************************************************)
(* Session state properties                                                *)
(***************************************************************************)
UploadSucceeded ==
    response.endpoint = "upload" /\ response.handled /\ response.status = 200

\* C1: after a successful /api/upload none of the four globals refers to an
\* earlier upload: path, buffer and inference context are those of this upload
\* and no result computed for an earlier point cloud is left to download.
C1_UploadReplacesSessionState ==
    UploadSucceeded =>
        /\ current_point_cloud_path.upload = response.upload
        /\ current_point_cloud.upload = response.upload
        /\ current_inference.upload = response.upload
        /\ (current_results = None \/ current_results.mask_of = response.upload)

InferSucceeded ==
    response.endpoint = "infer" /\ response.handled /\ response.status = 200

\* C2: the globals are shared by all clients: a successful /api/infer is served
\* from the inference context the last upload installed, whoever sent that
\* upload, so a client is served from another client's point cloud.
C2_InferServedFromSharedContext ==
    InferSucceeded =>
        /\ response.served_from = current_inference.upload
        /\ response.uploaded_by = current_inference.client

C2_Witness ==
    /\ InferSucceeded
    /\ response.client = "A"
    /\ response.uploaded_by = "B"
    /\ own["A"] # 0
    /\ response.served_from # own["A"]

\* C3: no handler lets an exception escape: every request is answered by a
\* response the handler itself built.
C3_NoExceptionEscapes ==
    response.endpoint # "none" => response.handled

\* C8: after a load the number of coordinates equals the number of colors, in
\* load_geometry_from_file and in the buffer /api/upload stores, and the
\* pointCount of a successful upload is that number.
C8_CoordsMatchColors ==
    /\ call.fn = "load_geometry_from_file" =>
            Len(call.result.coords) = Len(call.result.colors)
    /\ current_point_cloud # None =>
            /\ Len(current_point_cloud.coords) = Len(current_point_cloud.colors)
            /\ current_point_cloud.point_count = Len(current_point_cloud.colors)
    /\ UploadSucceeded =>
            /\ current_point_cloud.upload = response.upload
            /\ response.pointCount = Len(current_point_cloud.colors)

C8_Witness ==
    /\ UploadSucceeded
    /\ response.pointCount = 1
    /\ ~current_point_cloud.is_point_cloud
    /\ current_point_cloud.colors = <<<<Scale \div 2, Scale \div 2, Scale \div 2>>>>

\* the last request was an upload that got as far as saving its file
LastUploadSaved ==
    /\ response.endpoint = "upload"
    /\ current_point_cloud_path # None
    /\ current_point_cloud_path.upload = uploads

\* C12: an upload whose saved file holds neither triangles nor points is
\* answered 400 "Unsupported file format", and neither the inference context
\* nor the point-cloud buffer is one made for this upload.
C12_UnsupportedUploadRejected ==
    (LastUploadSaved /\ current_point_cloud_path.file.kind = "none") =>
        /\ response.handled
        /\ response.status = 400
        /\ response.message = "Unsupported file format"
        /\ (current_inference = None \/ current_inference.upload # uploads)
        /\ (current_point_cloud = None \/ current_point_cloud.upload # uploads)

C12_Witness ==
    /\ LastUploadSaved
    /\ current_point_cloud_path.file.kind = "none"
    /\ uploads = 2
    /\ response.status = 400
    /\ current_inference # None
    /\ current_inference.upload = 1
    /\ current_point_cloud # None

InferTraced == response.endpoint = "infer" /\ "steps" \in DOMAIN response

\* the click positions of the request: (object index, index in its list)
RequestClicks ==
    UNION {{<<response.clickData[k].obj_idx, i - 1>> :
                i \in 1..Len(response.clickData[k].positions)} :
           k \in 1..Len(response.clickData)}

StepsAt(name, c) ==
    {k \in 1..Len(response.steps) :
        response.steps[k].step = name /\ response.steps[k].click = c}

ModelRunsAt == {k \in 1..Len(response.steps) : response.steps[k].step = "run_inference"}

Before(S, T) == \A t \in T : \E x \in S : x < t

RequestClickList ==
    LET F[k \in 0..Len(response.clickData)] ==
            IF k = 0 THEN <<>>
            ELSE F[k - 1] \o [i \in 1..Len(response.clickData[k].positions) |->
                                [obj_idx |-> response.clickData[k].obj_idx,
                                 position |-> response.clickData[k].positions[i]]]
    IN  F[Len(response.clickData)]

\* C15: the clicks the model runs on are exactly the clicks of this request,
\* and once the handler has returned no session state holds the request's
\* click collection.
C15_ClicksDiscarded ==
    InferTraced =>
        /\ \A k \in ModelRunsAt :
               [i \in 1..Len(response.steps[k].clicks) |->
                   [obj_idx |-> response.steps[k].clicks[i].obj_idx,
                    position |-> response.steps[k].clicks[i].position]] = RequestClickList
        /\ \/ current_inference.click_handler = None
           \/ current_inference.click_handler.request # requests

\* the last request was a /api/mask_obj_recognition with a point cloud path set
RecognitionAsked ==
    response.endpoint = "mask_obj_recognition" /\ current_point_cloud_path # None

PositiveIds == {x \in {response.mask[k] : k \in 1..Len(response.mask)} : x > 0}

\* C16: with a point cloud loaded, a mask with a positive value gets the
\* recognition routine invoked once per distinct positive id, in ascending
\* order, each time on its own copy of the whole mask, and (when the routine
\* succeeds) one result per id in that order; a mask without a positive value
\* is answered 400 and the routine is not invoked.
C16_OneRecognitionPerObject ==
    RecognitionAsked =>
        /\ \A k \in 1..Len(response.invoked) :
               /\ response.invoked[k].obj_id \in PositiveIds
               /\ response.invoked[k].mask = response.mask
               /\ \A j \in 1..Len(response.invoked) :
                      j < k => /\ response.invoked[j].obj_id < response.invoked[k].obj_id
                               /\ response.invoked[j].copy # response.invoked[k].copy
        /\ PositiveIds = {} =>
               /\ response.status = 400
               /\ response.message = "No objects found in the mask"
               /\ response.invoked = <<>>
        /\ (PositiveIds # {} /\ response.status = 200) =>
               /\ {response.invoked[k].obj_id : k \in 1..Len(response.invoked)} = PositiveIds
               /\ Len(response.result) = Len(response.invoked)
               /\ \A k \in 1..Len(response.result) :
                      response.result[k].described = response.invoked[k].obj_id
        /\ PositiveIds # {} => response.status \in {200, 500}

C16_Witness ==
    /\ RecognitionAsked
    /\ response.status = 200
    /\ response.mask = <<2, 0, -1, 1, 2>>
    /\ Len(response.invoked) = 2
    /\ response.invoked[1].obj_id = 1
    /\ response.invoked[2].obj_id = 2

\* the session holds the point cloud of a successful upload, and no later
\* upload has touched it
UploadedCloudInPlace ==
    /\ current_point_cloud # None
    /\ current_point_cloud.coords # <<>>
    /\ current_point_cloud_path.upload = current_point_cloud.upload

\* C19: after a successful upload /api/pre_segmentation completes: it answers
\* "Pre-segment completed successfully" with one outPath per camera position
\* of the outward placement, in view order.
C19_PreSegmentationCompletes ==
    (response.endpoint = "pre_segmentation" /\ UploadedCloudInPlace) =>
        /\ response.handled
        /\ response.status = 200
        /\ response.message = "Pre-segment completed successfully"
        /\ Len(response.outPaths) = NumPositionsOutward(Scale \div 5)
        /\ \A k \in 1..Len(response.outPaths) :
               response.outPaths[k].name = ImagePath("./camera_test", k - 1).name

\* the global g was not written by the upload handled last
NotOfLastUpload(g) == g = None \/ g.upload # uploads

\* C20: an upload answered 400 or 500 leaves the session state as it was (no
\* global is one this upload wrote), so in every state the path, the buffer
\* and the inference context are all unset or all of the same upload.
C20_FailedUploadLeavesState ==
    /\ (response.endpoint = "upload" /\ response.status # 200) =>
            /\ NotOfLastUpload(current_point_cloud_path)
            /\ NotOfLastUpload(current_point_cloud)
            /\ NotOfLastUpload(current_inference)
    /\ \/ /\ current_point_cloud_path = None
          /\ current_point_cloud = None
          /\ current_inference = None
       \/ /\ current_point_cloud_path # None
          /\ current_point_cloud # None
          /\ current_inference # None
          /\ current_point_cloud.upload = current_point_cloud_path.upload
          /\ current_inference.upload = current_point_cloud_path.upload

\* C21: while no upload has been answered 200, /api/infer and
\* /api/mask_obj_recognition answer 400 "No point cloud loaded", run neither the
\* click loop and the segmentation network nor the recognition routine, and have
\* stored neither a click handler nor a result
C21_UnloadedRequestsRejected ==
    (~uploaded_ok /\ response.endpoint \in {"infer", "mask_obj_recognition"}) =>
        /\ response.status = 400
        /\ response.message = "No point cloud loaded"
        /\ "steps" \notin DOMAIN response
        /\ "invoked" \in DOMAIN response => response.invoked = <<>>
        /\ current_results = None
        /\ current_inference = None \/ current_inference.click_handler = None

\* the request just handled was answered by /api/infer with status 500
InferFailed == response.endpoint = "infer" /\ response.status = 500

\* C22: an /api/infer request answered 500 leaves current_results as it was, and
\* a /api/download-results request that follows it is served the result path of
\* the last successful inference (400 when there has been none)
C22_FailedInferKeepsResults ==
    /\ [][(requests' = requests + 1 /\ InferFailed') =>
              current_results' = current_results]_vars
    /\ [][(InferFailed /\ requests' = requests + 1
           /\ response'.endpoint = "download-results") =>
              IF last_infer = None
              THEN response'.status = 400
              ELSE response'.status = 200 /\ response'.path = last_infer.result_path]_vars

\* a download served right after an inference that got through the click loop
\* and failed, itself later than the successful one
C22_Witness ==
    /\ response.endpoint = "download-results"
    /\ response.status = 200
    /\ last_infer # None
    /\ current_inference.click_handler # None
    /\ current_inference.click_handler.request = requests - 1
    /\ last_infer.request < requests - 1
    /\ response.path = last_infer.result_path

ReadingEndpoints ==
    {"pre_segmentation", "mask_obj_recognition", "download-results", "render_and_segment"}

\* which upload created the inference context a global holds (0: none)
ContextOf(inference) == IF inference = None THEN 0 ELSE inference.upload

\* C23: a request to /api/pre_segmentation, /api/mask_obj_recognition,
\* /api/download-results or /api/render_and_segment leaves the four globals as
\* they were, whatever it answers; the buffer, the path and the context object
\* are replaced by /api/upload requests only, and current_results by /api/infer
\* requests answered 200 only
C23_GlobalsWrittenByUploadAndInfer ==
    [][requests' = requests + 1 =>
          /\ response'.endpoint \in ReadingEndpoints =>
                 UNCHANGED <<current_point_cloud, current_point_cloud_path,
                             current_inference, current_results>>
          /\ ~ UNCHANGED <<current_point_cloud, current_point_cloud_path>> =>
                 response'.endpoint = "upload"
          /\ ContextOf(current_inference') # ContextOf(current_inference) =>
                 response'.endpoint = "upload"
          /\ current_results' # current_results =>
                 response'.endpoint = "infer" /\ response'.status = 200]_vars

\* a render request has failed while all four globals were set
C23_Witness ==
    /\ response.endpoint = "render_and_segment"
    /\ ~response.handled
    /\ current_point_cloud # None
    /\ current_point_cloud_path # None
    /\ current_inference # None
    /\ current_results # None

(***************************************************************************)
(* Camera placement and recoloring properties                              *)
(***************************************************************************)
Near(a, b) == (a - b) \in -3..3

IsCameraCall == call.fn = "test_camera_positions"

\* the list of camera positions exists once the call got as far as placing them
Placed == IsCameraCall /\ "placed" \in DOMAIN call.result

ObjMask == [k \in 1..Len(call.args.mask) |-> call.args.mask[k] = call.args.obj_id]

ConfiguredHeight ==
    IF call.args.camera_height # <<>> THEN call.args.camera_height[1]
    ELSE MinOfSet({call.args.file.coords[k][3] : k \in 1..Len(call.args.file.coords)})
         + (3 * Scale) \div 2

\* bounding radius of the masked object times the factor the caller passed
RequestedRadius ==
    (compute_object_center_and_radius(ObjMask, call.args.file.coords).bounding_radius
     * call.args.distance_factor) \div Scale

OnCircle(radius) ==
    \A k \in 1..Len(call.result.placed.camera_positions) :
        LET pos == call.result.placed.camera_positions[k]
        IN  /\ pos[3] = ConfiguredHeight
            /\ Near(HorizontalDistance(pos, call.result.placed.center), radius)

C9_EmptySelectionRaises ==
    (IsCameraCall /\ ~MaskAny(ObjMask)) =>
        /\ call.result.outcome = "ValueError"
        /\ "image_paths" \notin DOMAIN call.result

C9_Witness ==
    /\ IsCameraCall
    /\ ~MaskAny(ObjMask)
    /\ Len(call.args.mask) = 2
    /\ call.args.mask_mode = "full"
    /\ call.args.look_outward
    /\ call.result.outcome = "ValueError"
    /\ call.result.message = "The mask did not select any points."
    /\ call.result.effects = <<"recolor", "makedirs", "write_ply", "makedirs", "recolor", "renderer">>

\* C10: a mask whose length differs from the number of points makes
\* test_camera_positions and render_object_views raise ValueError before any
\* recoloring, any output file write and any render.
C10_MismatchRaisesFirst ==
    (call.fn \in {"test_camera_positions", "render_object_views"}
        /\ Len(call.args.mask) # Len(call.args.file.coords)) =>
        /\ call.result.outcome = "ValueError"
        /\ call.result.message =
               "Mask length does not match number of points in the geometry."
        /\ \A k \in 1..Len(call.result.effects) : call.result.effects[k] = "makedirs"

C10_Witness ==
    /\ call.fn = "render_object_views"
    /\ Len(call.args.mask) < Len(call.args.file.coords)
    /\ call.args.mask_mode = "full"
    /\ call.args.camera_pos # <<>>
    /\ call.result.outcome = "ValueError"
    /\ call.result.effects = <<"makedirs">>

\* C11: for every mode string other than "full" and "outline" process_mask_mode
\* raises ValueError whatever the mask holds, and test_camera_positions raises
\* with nothing written and nothing rendered.
C11_UnsupportedModeRaises ==
    /\ (call.fn = "process_mask_mode" /\ call.mask_mode \notin {"full", "outline"}) =>
            /\ call.result.outcome = "ValueError"
            /\ call.result.message = "mask_mode must be 'outline' or 'full'."
    /\ (IsCameraCall /\ call.args.mask_mode \notin {"full", "outline"}) =>
            /\ call.result.outcome = "ValueError"
            /\ call.result.effects = <<>>

C11_Witness ==
    /\ IsCameraCall
    /\ call.args.mask_mode = "wireframe"
    /\ call.args.mask = <<1, 0>>
    /\ Len(call.args.file.coords) = 2
    /\ call.args.look_outward
    /\ call.result.outcome = "ValueError"
    /\ call.result.message = "mask_mode must be 'outline' or 'full'."
    /\ call.result.effects = <<>>

\* N is the smallest integer >= 1 with N * horizontal_fov * (1 - overlap) >= 360
SmallestCover(n, overlap_ratio) ==
    /\ n >= 1
    /\ n * HorizontalFov * (Scale - overlap_ratio) >= 360 * Scale * Scale
    /\ (n - 1) * HorizontalFov * (Scale - overlap_ratio) < 360 * Scale * Scale

\* C17: in outward mode, for every overlap ratio in [0, 1), the number of
\* camera positions is the smallest N >= 1 whose N views of the effective
\* field of view cover 360 degrees.
C17_OutwardPositionCount ==
    /\ call.fn = "num_positions" => SmallestCover(call.result, call.overlap_ratio)
    /\ (Placed /\ call.args.look_outward) =>
            SmallestCover(Len(call.result.placed.camera_positions), call.args.overlap_ratio)

C17_Witness ==
    /\ Placed
    /\ call.args.look_outward
    /\ call.args.overlap_ratio = 700
    /\ call.args.num_positions = 8
    /\ call.result.outcome = "ok"
    /\ Len(call.result.placed.camera_positions) = 10

\* eye is the midpoint of center and target
Midpoint(eye, center, target) == \A c \in 1..3 : 2 * eye[c] = center[c] + target[c]

\* C18: in outward mode every rendered view looks from its camera position to
\* the target 2 * eye - scene_center; in test_camera_positions the scene center
\* is at the camera height, so the target is at the height of the eye.
C18_OutwardTarget ==
    /\ (IsCameraCall /\ call.args.look_outward /\ call.result.outcome = "ok") =>
            /\ Len(call.result.views) = Len(call.result.placed.camera_positions)
            /\ \A k \in 1..Len(call.result.views) :
                   LET v == call.result.views[k]
                   IN  /\ v.eye = call.result.placed.camera_positions[k]
                       /\ Midpoint(v.eye, call.result.placed.scene_center, v.target)
                       /\ call.result.placed.scene_center[3] = v.eye[3]
                       /\ v.target[3] = v.eye[3]
    /\ (call.fn = "render_object_views" /\ call.args.look_outward
            /\ call.result.outcome = "ok") =>
            \A k \in 1..Len(call.result.views) :
                LET v == call.result.views[k]
                IN  /\ v.eye = call.args.camera_pos[k]
                    /\ Midpoint(v.eye, call.args.scene_center[1], v.target)

C18_Witness ==
    /\ IsCameraCall
    /\ call.args.look_outward
    /\ call.result.outcome = "ok"
    /\ Len(call.result.views) = 4
    /\ call.result.views[2].target # call.result.views[2].eye
    /\ call.result.views[2].target[3] = ConfiguredHeight

\* the number a sequence of decimal digits denotes
RECURSIVE DigitsValue(_)
DigitsValue(d) == IF d = <<>> THEN 0 ELSE 10 * DigitsValue(Front(d)) + Last(d)

IsRenderCall == call.fn \in {"render_object_views", "test_camera_positions"}

\* the camera positions render_object_views was given
RenderedPositions ==
    IF call.fn = "render_object_views" THEN call.args.camera_pos
    ELSE call.result.placed.camera_positions

\* C26: a call of render_object_views that returns gives one image path per camera
\* position, in the order of the positions; the i-th (from 0) is in the output
\* directory and is named view_<i>.png with i zero-padded to three digits (the
\* calls examined place fewer than 1000 cameras); the paths of one call are
\* pairwise distinct
C26_OnePathPerPosition ==
    (IsRenderCall /\ call.result.outcome = "ok") =>
        LET paths == call.result.image_paths
        IN  /\ Len(paths) = Len(RenderedPositions)
            /\ \A k \in 1..Len(paths) :
                   /\ call.result.views[k].eye = RenderedPositions[k]
                   /\ call.result.views[k].path = paths[k]
                   /\ paths[k].dir = call.args.output_dir
                   /\ Len(paths[k].name) = 3
                   /\ paths[k].name[1] = "view_"
                   /\ paths[k].name[3] = ".png"
                   /\ DigitsValue(paths[k].name[2]) = k - 1
                   /\ Len(paths[k].name[2]) = 3
            /\ \A j, k \in 1..Len(paths) : j # k => paths[j] # paths[k]

\* a call that rendered more than ten views, so that indices of two digits occur
C26_Witness ==
    /\ IsRenderCall
    /\ call.result.outcome = "ok"
    /\ Len(call.result.image_paths) > 10
    /\ call.result.image_paths[12].name = <<"view_", <<0, 1, 1>>, ".png">>

(***************************************************************************)
(* Largest-rectangle properties                                            *)
(***************************************************************************)
Rows(g) == Len(g)
Cols(g) == Len(g[1])

AllCells(g, v) == \A i \in 1..Rows(g) : \A j \in 1..Cols(g) : g[i][j] = v

\* the rectangle a result (n1, n2, m1, m2) denotes: rows n1..n2, columns m1..m2
BoundsArea(b) == (b[2] - b[1] + 1) * (b[4] - b[3] + 1)

BoundsInGrid(b, g) ==
    /\ 0 <= b[1] /\ b[1] <= b[2] /\ b[2] <= Rows(g) - 1
    /\ 0 <= b[3] /\ b[3] <= b[4] /\ b[4] <= Cols(g) - 1

BoundsFree(b, g) ==
    \A i \in b[1]..b[2] : \A j \in b[3]..b[4] : g[i + 1][j + 1] = 1

\* brute force: the largest area of an all-free axis-aligned rectangle
FreeRectAreas(g) ==
    {BoundsArea(<<a, b, c, d>>) :
        <<a, b, c, d>> \in {q \in (0..Rows(g) - 1) \X (0..Rows(g) - 1)
                                  \X (0..Cols(g) - 1) \X (0..Cols(g) - 1) :
                              /\ q[1] <= q[2] /\ q[3] <= q[4]
                              /\ BoundsFree(q, g)}}

BruteForceArea(g) == IF FreeRectAreas(g) = {} THEN 0 ELSE MaxOfSet(FreeRectAreas(g))

\* C5: for both routines, the rectangle denoted by the result has area R*C on
\* an all-1 grid and area 0 on an all-0 grid, and excludes the occupied cell
\* of a grid whose only 0 is surrounded by 1s.
IsolatedZero(g) ==
    /\ Cardinality({<<i, j>> \in (1..Rows(g)) \X (1..Cols(g)) : g[i][j] = 0}) = 1
    /\ \E i \in 2..Rows(g) - 1 : \E j \in 2..Cols(g) - 1 : g[i][j] = 0

C5_Claim(g, area, b) ==
    /\ AllCells(g, 1) => area = Rows(g) * Cols(g)
    /\ AllCells(g, 0) => area = 0
    /\ IsolatedZero(g) => BoundsFree(b, g)

C5_RectangleAreas ==
    /\ call.fn = "voxelizer.maximalRectangle" =>
            C5_Claim(call.matrix, BoundsArea(call.result), call.result)
    /\ call.fn = "max_submatrix_getting.maximalRectangle" =>
            C5_Claim(call.matrix, call.result[1], call.result[2])

\* C6: on a grid with at least one free cell the bounds voxelizer.maximalRectangle
\* returns are ordered and inside the grid, enclose only free cells, and no
\* all-free rectangle of the grid is larger.
C6_MaximalRectangleOptimal ==
    (call.fn = "voxelizer.maximalRectangle" /\ ~AllCells(call.matrix, 0)) =>
        /\ BoundsInGrid(call.result, call.matrix)
        /\ BoundsFree(call.result, call.matrix)
        /\ BoundsArea(call.result) = BruteForceArea(call.matrix)

C6_Witness ==
    /\ call.fn = "voxelizer.maximalRectangle"
    /\ call.matrix = <<<<1, 0, 1>>, <<1, 1, 1>>, <<0, 1, 1>>>>
    /\ call.result = <<1, 2, 1, 2>>

(***************************************************************************)
(* Occupancy-grid properties                                               *)
(***************************************************************************)
IsFindPosition == call.fn = "find_position"

\* C24: in find_position every point inside the height band gets cell indices
\* within 0..SIZE-1 on both axes, the points at the maximum x or y of the cloud
\* included, so that writing the grid never raises IndexError
C24_CellIndicesInGrid ==
    IsFindPosition =>
        /\ call.result.outcome # "IndexError"
        /\ \A k \in 1..Len(call.result.cells) :
               /\ call.result.cells[k][1] \in 0..(SIZE - 1)
               /\ call.result.cells[k][2] \in 0..(SIZE - 1)

\* the world interval, in units of 1/(2*SIZE), of cells i1..i2 along axis a
CellsFrom(a, i1) ==
    Unit * AxisMin(call.coords, a)
    + 2 * i1 * (AxisMax(call.coords, a) - AxisMin(call.coords, a))

CellsTo(a, i2) == CellsFrom(a, i2 + 1)

\* C25: a position returned by find_position has z equal to the given height and
\* (x, y) at the center of the rectangle maximalRectangle returns for the grid,
\* mapped to world coordinates; (x, y) lies in the x/y bounding box of the cloud
\* and in a cell that the grid marks free
C25_PositionInFreeCell ==
    (IsFindPosition /\ call.result.outcome = "ok") =>
        LET pos == call.result.position
            g == maximalRectangle(call.result.matrix)
        IN  /\ pos[3] = Unit * call.height
            /\ 2 * pos[1] = CellsFrom(1, g[1]) + CellsTo(1, g[2])
            /\ 2 * pos[2] = CellsFrom(2, g[3]) + CellsTo(2, g[4])
            /\ \A a \in 1..2 :
                   /\ Unit * AxisMin(call.coords, a) <= pos[a]
                   /\ pos[a] <= Unit * AxisMax(call.coords, a)
            /\ \E i, j \in 0..(SIZE - 1) :
                   /\ call.result.matrix[i + 1][j + 1] = 1
                   /\ CellsFrom(1, i) <= pos[1] /\ pos[1] <= CellsTo(1, i)
                   /\ CellsFrom(2, j) <= pos[2] /\ pos[2] <= CellsTo(2, j)

(***************************************************************************)
(* PLY header rewriting properties                                         *)
(***************************************************************************)
IsPlyCall == call.fn = "modify_ply_colors"

\* out is header with "diffuse_" put in front of the color name of every
\* "property uchar <color>", and with no other difference
RECURSIVE OnlyRenamed(_, _)
OnlyRenamed(header, out) ==
    IF header = <<>> THEN out = <<>>
    ELSE IF Len(header) >= 2 /\ header[1] = PropertyUchar /\ header[2] \in ColorNames
    THEN /\ Len(out) >= 3
         /\ SubSeq(out, 1, 3) = <<PropertyUchar, Diffuse, header[2]>>
         /\ OnlyRenamed(SubSeq(header, 3, Len(header)), SubSeq(out, 4, Len(out)))
    ELSE /\ out # <<>>
         /\ out[1] = header[1]
         /\ OnlyRenamed(Tail(header), Tail(out))

\* C27: modify_ply_colors writes no file when the input has no end_header marker;
\* otherwise the output ends with the bytes that follow the marker, unchanged,
\* the header before them differs from the input header only by the three
\* renamed color properties, and applying the function to the output writes the
\* same bytes again
C27_OnlyColorNamesChange ==
    IsPlyCall =>
        IF \A k \in 1..Len(call.content) : call.content[k] # EndHeader
        THEN ~call.result.written
        ELSE LET h == CHOOSE k \in 1..Len(call.content) :
                          /\ call.content[k] = EndHeader
                          /\ \A j \in 1..(k - 1) : call.content[j] # EndHeader
                 data == SubSeq(call.content, h + 1, Len(call.content))
                 out == call.result.output
                 n == Len(out) - Len(data)
             IN  /\ call.result.written
                 /\ n >= 0
                 /\ SubSeq(out, n + 1, Len(out)) = data
                 /\ OnlyRenamed(SubSeq(call.content, 1, h), SubSeq(out, 1, n))
                 /\ call.again.written
                 /\ call.again.output = out

====
